---------------------------- MODULE Spec2Model ----------------------------
(***************************************************************************)
(* A model of go-ordered-map (src/orderedmap.go): an OrderedMap[K,V] made  *)
(* of a hash index `pairs` (key -> *Pair) and a doubly linked list of      *)
(* *Pair, kept in lockstep by Set and Delete.                              *)
(*                                                                         *)
(* Pointers are addresses: a *Pair is a key of `heap` (the Pair objects    *)
(* that are still referenced; `allocs` counts the allocations, so an       *)
(* address is never handed out twice), a *list.Element is a key of         *)
(* `list.nodes`.  Nil is the nil pointer.                                  *)
(*                                                                         *)
(* The package .../go-ordered-map/list is imported by orderedmap.go but    *)
(* its source is not part of src/: the List* operators below model it      *)
(* from section 4.1 of the specification (Linked Sequence).                *)
(***************************************************************************)
EXTENDS Integers, Sequences, FiniteSets, TLC

\* ------------------------------------------------------------------ bounds
MaxKey == 3      \* keys are 1..MaxKey
MaxAlloc == 4    \* Pair objects allocated over a run (inserts of an absent key)
MaxHandleAlloc == 3   \* the same, over a run of a caller that keeps a pair

\* -------------------------------------------------------------- constants
Nil == 0         \* the nil pointer (no Pair, no Element has address 0)

\* The map is generic: K comparable, V any.  It is checked for K = int and
\* V = bool, whose zero value (`var empty V`) is false.
Keys == 1..MaxKey
Values == BOOLEAN
Zero == FALSE

\* pairs, list : the two fields of the OrderedMap
\* heap, allocs: the Pair objects in memory and the count of allocations
\* call, ret   : the last call made on the map and what it returned
\* pre         : the world as it was before that call
\* ref         : the reference model, a plain sequence of <<key, value>>
\* deleted     : when the call before the last one was a Delete that removed
\*               a key, that key and the keys a traversal listed before it
\*               (kept by SpecTwoCalls only, for the claims about a Delete
\*               and the call that follows it)
\* held        : the *Pair the caller keeps in a variable of its own: the
\*               pointer, the key read through it when it was obtained,
\*               whether that key has been deleted since, and the value
\*               read through it at that Delete (kept by SpecHandles only)
VARIABLES pairs, list, heap, allocs, call, ret, pre, ref, deleted, held

vars == <<pairs, list, heap, allocs, call, ret, pre, ref, deleted, held>>

\* ============================================================ package list
\* list.New: an empty sequence.  `made` counts the nodes ever created, so
\* that every PushBack returns a handle never handed out before.
ListNew == [nodes |-> <<>>, front |-> Nil, back |-> Nil, len |-> 0, made |-> 0]

\* List.PushBack(payload) -> Handle: appends payload as the new tail node.
ListPushBack(l, payload) ==
    LET e == l.made + 1
        linked == IF l.back = Nil THEN l.nodes
                  ELSE [l.nodes EXCEPT ![l.back].next = e]
        node == [Value |-> payload, next |-> Nil, prev |-> l.back]
    IN [list |-> [nodes |-> [x \in DOMAIN linked \cup {e} |->
                                IF x = e THEN node ELSE linked[x]],
                  front |-> IF l.front = Nil THEN e ELSE l.front,
                  back |-> e,
                  len |-> l.len + 1,
                  made |-> e],
        element |-> e]

\* List.Remove(handle): unlinks the node, relinking its neighbours, and
\* decrements the length; the node is destroyed (its handle is invalid).
ListRemove(l, e) ==
    LET n == l.nodes[e]
        a == IF n.prev = Nil THEN l.nodes
             ELSE [l.nodes EXCEPT ![n.prev].next = n.next]
        b == IF n.next = Nil THEN a
             ELSE [a EXCEPT ![n.next].prev = n.prev]
    IN [nodes |-> [x \in DOMAIN b \ {e} |-> b[x]],
        front |-> IF l.front = e THEN n.next ELSE l.front,
        back |-> IF l.back = e THEN n.prev ELSE l.back,
        len |-> l.len - 1,
        made |-> l.made]

\* List.Front / List.Back: the head / tail handle, absent if empty.
ListFront(l) == l.front
ListBack(l) == l.back

\* Element.Next / Element.Prev: the neighbour handle, absent at a boundary.
ElementNext(l, e) == l.nodes[e].next
ElementPrev(l, e) == l.nodes[e].prev

\* List.Len: the count of live nodes.
ListLen(l) == l.len

\* ====================================================== package orderedmap
\* A world is the memory the map lives in: the OrderedMap's two fields and
\* the Pair objects they point to.
World == [pairs |-> pairs, list |-> list, heap |-> heap, allocs |-> allocs]

\* New(): empty index, empty list.
New == [pairs |-> <<>>, list |-> ListNew, heap |-> <<>>, allocs |-> 0]

\* listElementToPair: nil for a nil element, else the element's payload.
listElementToPair(w, element) ==
    IF element = Nil THEN Nil ELSE w.list.nodes[element].Value

\* Get that takes a stored zero value for a missing key.
GetZeroIsAbsent(w, key) ==
    IF key \in DOMAIN w.pairs /\ w.heap[w.pairs[key]].Value # Zero
    THEN [value |-> w.heap[w.pairs[key]].Value, present |-> TRUE]
    ELSE [value |-> Zero, present |-> FALSE]

\* OrderedMap.Get
Get(w, key) ==
    IF key \in DOMAIN w.pairs
    THEN [value |-> w.heap[w.pairs[key]].Value, present |-> TRUE]
    ELSE [value |-> Zero, present |-> FALSE]

\* OrderedMap.GetPair: the index lookup; a missing key yields nil.
GetPair(w, key) ==
    IF key \in DOMAIN w.pairs THEN w.pairs[key] ELSE Nil

\* Set as an LRU cache would have it: an update moves the key to the back.
SetMovesToBack(w, key, value) ==
    IF key \in DOMAIN w.pairs
    THEN LET pair == w.pairs[key]
             pushed == ListPushBack(ListRemove(w.list, w.heap[pair].element), pair)
         IN [w |-> [w EXCEPT !.list = pushed.list,
                             !.heap[pair].Value = value,
                             !.heap[pair].element = pushed.element],
             value |-> w.heap[pair].Value,
             present |-> TRUE]
    ELSE LET pair == w.allocs + 1
             pushed == ListPushBack(w.list, pair)
             object == [Key |-> key, Value |-> value, element |-> pushed.element]
         IN [w |-> [pairs |-> [k \in DOMAIN w.pairs \cup {key} |->
                                  IF k = key THEN pair ELSE w.pairs[k]],
                    list |-> pushed.list,
                    heap |-> [a \in DOMAIN w.heap \cup {pair} |->
                                 IF a = pair THEN object ELSE w.heap[a]],
                    allocs |-> pair],
             value |-> Zero,
             present |-> FALSE]

\* Set that stores a new Pair in the index on an update instead of writing
\* `pair.Value = value`: the node of the list keeps the old Pair.
SetReplacesPair(w, key, value) ==
    IF key \in DOMAIN w.pairs
    THEN LET old == w.pairs[key]
             pair == w.allocs + 1
             object == [Key |-> key, Value |-> value,
                        element |-> w.heap[old].element]
         IN [w |-> [w EXCEPT !.pairs[key] = pair,
                             !.heap = [a \in DOMAIN w.heap \cup {pair} |->
                                          IF a = pair THEN object ELSE w.heap[a]],
                             !.allocs = pair],
             value |-> w.heap[old].Value,
             present |-> TRUE]
    ELSE LET pair == w.allocs + 1
             pushed == ListPushBack(w.list, pair)
             object == [Key |-> key, Value |-> value, element |-> pushed.element]
         IN [w |-> [pairs |-> [k \in DOMAIN w.pairs \cup {key} |->
                                  IF k = key THEN pair ELSE w.pairs[k]],
                    list |-> pushed.list,
                    heap |-> [a \in DOMAIN w.heap \cup {pair} |->
                                 IF a = pair THEN object ELSE w.heap[a]],
                    allocs |-> pair],
             value |-> Zero,
             present |-> FALSE]

\* Set that reads oldValue after it has written pair.Value.
SetReturnsNewValue(w, key, value) ==
    IF key \in DOMAIN w.pairs
    THEN LET pair == w.pairs[key]
         IN [w |-> [w EXCEPT !.heap[pair].Value = value],
             value |-> value,
             present |-> TRUE]
    ELSE LET pair == w.allocs + 1
             pushed == ListPushBack(w.list, pair)
             object == [Key |-> key, Value |-> value, element |-> pushed.element]
         IN [w |-> [pairs |-> [k \in DOMAIN w.pairs \cup {key} |->
                                  IF k = key THEN pair ELSE w.pairs[k]],
                    list |-> pushed.list,
                    heap |-> [a \in DOMAIN w.heap \cup {pair} |->
                                 IF a = pair THEN object ELSE w.heap[a]],
                    allocs |-> pair],
             value |-> Zero,
             present |-> FALSE]

\* Set that drops the handle PushBack returns: pair.element stays nil.
SetDropsElement(w, key, value) ==
    IF key \in DOMAIN w.pairs
    THEN LET pair == w.pairs[key]
         IN [w |-> [w EXCEPT !.heap[pair].Value = value],
             value |-> w.heap[pair].Value,
             present |-> TRUE]
    ELSE LET pair == w.allocs + 1
             pushed == ListPushBack(w.list, pair)
             object == [Key |-> key, Value |-> value, element |-> Nil]
         IN [w |-> [pairs |-> [k \in DOMAIN w.pairs \cup {key} |->
                                  IF k = key THEN pair ELSE w.pairs[k]],
                    list |-> pushed.list,
                    heap |-> [a \in DOMAIN w.heap \cup {pair} |->
                                 IF a = pair THEN object ELSE w.heap[a]],
                    allocs |-> pair],
             value |-> Zero,
             present |-> FALSE]

\* Set without `om.pairs[key] = pair`: the new pair is pushed on the list
\* and never indexed.
SetForgetsIndex(w, key, value) ==
    IF key \in DOMAIN w.pairs
    THEN LET pair == w.pairs[key]
         IN [w |-> [w EXCEPT !.heap[pair].Value = value],
             value |-> w.heap[pair].Value,
             present |-> TRUE]
    ELSE LET pair == w.allocs + 1
             pushed == ListPushBack(w.list, pair)
             object == [Key |-> key, Value |-> value, element |-> pushed.element]
         IN [w |-> [pairs |-> w.pairs,
                    list |-> pushed.list,
                    heap |-> [a \in DOMAIN w.heap \cup {pair} |->
                                 IF a = pair THEN object ELSE w.heap[a]],
                    allocs |-> pair],
             value |-> Zero,
             present |-> FALSE]

\* OrderedMap.Set: the world after the call and the two results.
Set(w, key, value) ==
    IF key \in DOMAIN w.pairs
    THEN LET pair == w.pairs[key]
         IN [w |-> [w EXCEPT !.heap[pair].Value = value],
             value |-> w.heap[pair].Value,
             present |-> TRUE]
    ELSE LET pair == w.allocs + 1
             pushed == ListPushBack(w.list, pair)
             object == [Key |-> key, Value |-> value, element |-> pushed.element]
         IN [w |-> [pairs |-> [k \in DOMAIN w.pairs \cup {key} |->
                                  IF k = key THEN pair ELSE w.pairs[k]],
                    list |-> pushed.list,
                    heap |-> [a \in DOMAIN w.heap \cup {pair} |->
                                 IF a = pair THEN object ELSE w.heap[a]],
                    allocs |-> pair],
             value |-> Zero,
             present |-> FALSE]

\* Delete without `om.list.Remove(pair.element)`: the key leaves the index
\* and its node stays in the list.
DeleteKeepsNode(w, key) ==
    IF key \in DOMAIN w.pairs
    THEN LET pair == w.pairs[key]
         IN [w |-> [w EXCEPT !.pairs = [k \in DOMAIN w.pairs \ {key} |-> w.pairs[k]]],
             value |-> w.heap[pair].Value,
             present |-> TRUE]
    ELSE [w |-> w, value |-> Zero, present |-> FALSE]

\* Delete that clears the Pair it removes (`pair.Value = empty`).
DeleteClearsPair(w, key) ==
    IF key \in DOMAIN w.pairs
    THEN LET pair == w.pairs[key]
         IN [w |-> [pairs |-> [k \in DOMAIN w.pairs \ {key} |-> w.pairs[k]],
                    list |-> ListRemove(w.list, w.heap[pair].element),
                    heap |-> [w.heap EXCEPT ![pair].Value = Zero],
                    allocs |-> w.allocs],
             value |-> w.heap[pair].Value,
             present |-> TRUE]
    ELSE [w |-> w, value |-> Zero, present |-> FALSE]

\* Delete that answers `true` on both paths.
DeleteReportsPresent(w, key) ==
    IF key \in DOMAIN w.pairs
    THEN LET pair == w.pairs[key]
         IN [w |-> [pairs |-> [k \in DOMAIN w.pairs \ {key} |-> w.pairs[k]],
                    list |-> ListRemove(w.list, w.heap[pair].element),
                    heap |-> w.heap,
                    allocs |-> w.allocs],
             value |-> w.heap[pair].Value,
             present |-> TRUE]
    ELSE [w |-> w, value |-> Zero, present |-> TRUE]

\* OrderedMap.Delete: the world after the call and the two results.
Delete(w, key) ==
    IF key \in DOMAIN w.pairs
    THEN LET pair == w.pairs[key]
         IN [w |-> [pairs |-> [k \in DOMAIN w.pairs \ {key} |-> w.pairs[k]],
                    list |-> ListRemove(w.list, w.heap[pair].element),
                    heap |-> w.heap,
                    allocs |-> w.allocs],
             value |-> w.heap[pair].Value,
             present |-> TRUE]
    ELSE [w |-> w, value |-> Zero, present |-> FALSE]

\* OrderedMap.Len
OrderedMapLen(w) == Cardinality(DOMAIN w.pairs)

\* OrderedMap.Oldest / OrderedMap.Newest
Oldest(w) == listElementToPair(w, ListFront(w.list))

\* Newest written as a copy of Oldest.
NewestIsFront(w) == listElementToPair(w, ListFront(w.list))

Newest(w) == listElementToPair(w, ListBack(w.list))

\* Pair.Next written as a copy of Pair.Prev.
PairNextGoesBack(w, p) ==
    listElementToPair(w, ElementPrev(w.list, w.heap[p].element))

\* Pair.Prev written as a copy of Pair.Next.
PairPrevGoesForward(w, p) ==
    listElementToPair(w, ElementNext(w.list, w.heap[p].element))

\* Pair.Next / Pair.Prev
PairNext(w, p) == listElementToPair(w, ElementNext(w.list, w.heap[p].element))
PairPrev(w, p) == listElementToPair(w, ElementPrev(w.list, w.heap[p].element))

\* The loop `for pair := om.Oldest(); pair != nil; pair = pair.Next()`, and
\* its mirror from Newest() by Prev(): the pairs visited, in order.  A loop
\* is cut after `fuel` visits; more visits than Pair objects were ever
\* allocated means the loop has gone round a cycle.
RECURSIVE Forward(_, _, _)
Forward(w, p, fuel) ==
    IF p = Nil \/ fuel = 0 THEN <<>>
    ELSE <<p>> \o Forward(w, PairNext(w, p), fuel - 1)

RECURSIVE Backward(_, _, _)
Backward(w, p, fuel) ==
    IF p = Nil \/ fuel = 0 THEN <<>>
    ELSE <<p>> \o Backward(w, PairPrev(w, p), fuel - 1)

Fuel(w) == w.allocs + 1

\* The nodes of the linked sequence, from Front() by Next().
RECURSIVE Elements(_, _, _)
Elements(l, e, fuel) ==
    IF e = Nil \/ fuel = 0 THEN <<>>
    ELSE <<e>> \o Elements(l, ElementNext(l, e), fuel - 1)

SequenceNodes(w) == Elements(w.list, ListFront(w.list), w.list.made + 1)

\* What a caller reads off the visited pairs: pair.Key, pair.Value.
KeysOf(w, visited) == [i \in 1..Len(visited) |-> w.heap[visited[i]].Key]
ItemsOf(w, visited) ==
    [i \in 1..Len(visited) |->
        <<w.heap[visited[i]].Key, w.heap[visited[i]].Value>>]

ForwardKeys(w) == KeysOf(w, Forward(w, Oldest(w), Fuel(w)))
ForwardItems(w) == ItemsOf(w, Forward(w, Oldest(w), Fuel(w)))
BackwardKeys(w) == KeysOf(w, Backward(w, Newest(w), Fuel(w)))
BackwardItems(w) == ItemsOf(w, Backward(w, Newest(w), Fuel(w)))

\* ================================================================= actions
\* The result of the last call, in one shape for every operation.
Result(value, present, pair, n) ==
    [value |-> value, present |-> present, pair |-> pair, n |-> n]

NoResult == Result(Zero, FALSE, Nil, 0)

Called(op, key, value, pair) ==
    [op |-> op, key |-> key, value |-> value, pair |-> pair]

\* The Pair handles a caller can hold by the API contract: those of the
\* keys that are present.
Handles(w) == {w.pairs[k] : k \in DOMAIN w.pairs}

\* Go's collector: a Pair that neither the index, nor a node of the list,
\* nor the caller's pointer h refers to any more is gone from memory.
Retain(w, h) ==
    LET roots == Handles(w)
                   \cup {w.list.nodes[e].Value : e \in DOMAIN w.list.nodes}
                   \cup ({h} \ {Nil})
    IN [w EXCEPT !.heap = [a \in roots |-> w.heap[a]]]

Collect(w) == Retain(w, held.pair)

\* The reference model: append on insert of an absent key, overwrite in
\* place on update, remove on delete.
RefIndex(r, key) ==
    IF \E i \in 1..Len(r) : r[i][1] = key
    THEN CHOOSE i \in 1..Len(r) : r[i][1] = key
    ELSE 0

RefSet(r, key, value) ==
    IF RefIndex(r, key) = 0 THEN Append(r, <<key, value>>)
    ELSE [r EXCEPT ![RefIndex(r, key)] = <<key, value>>]

RefDelete(r, key) ==
    LET i == RefIndex(r, key)
    IN IF i = 0 THEN r
       ELSE [j \in 1..(Len(r) - 1) |-> IF j < i THEN r[j] ELSE r[j + 1]]

NoDelete == [key |-> Nil, keys |-> <<>>]

NoHandle == [pair |-> Nil, key |-> Nil, deleted |-> FALSE, value |-> Zero]

Init ==
    /\ pairs = New.pairs
    /\ list = New.list
    /\ heap = New.heap
    /\ allocs = New.allocs
    /\ call = Called("New", Nil, Zero, Nil)
    /\ ret = NoResult
    /\ pre = New
    /\ ref = <<>>
    /\ deleted = NoDelete
    /\ held = NoHandle

Becomes(w) ==
    /\ pairs' = w.pairs
    /\ list' = w.list
    /\ heap' = Collect(w).heap
    /\ allocs' = w.allocs
    /\ pre' = World

CallSet(key, value) ==
    /\ key \in DOMAIN pairs \/ allocs < MaxAlloc
    /\ LET r == Set(World, key, value)
       IN /\ Becomes(r.w)
          /\ ref' = RefSet(ref, key, value)
          /\ call' = Called("Set", key, value, Nil)
          /\ ret' = Result(r.value, r.present, Nil, 0)

CallDelete(key) ==
    LET r == Delete(World, key)
    IN /\ Becomes(r.w)
       /\ ref' = RefDelete(ref, key)
       /\ call' = Called("Delete", key, Zero, Nil)
       /\ ret' = Result(r.value, r.present, Nil, 0)

CallGet(key) ==
    LET r == Get(World, key)
    IN /\ Becomes(World)
       /\ ref' = ref
       /\ call' = Called("Get", key, Zero, Nil)
       /\ ret' = Result(r.value, r.present, Nil, 0)

CallGetPair(key) ==
    /\ Becomes(World)
    /\ ref' = ref
    /\ call' = Called("GetPair", key, Zero, Nil)
    /\ ret' = Result(Zero, FALSE, GetPair(World, key), 0)

CallLen ==
    /\ Becomes(World)
    /\ ref' = ref
    /\ call' = Called("Len", Nil, Zero, Nil)
    /\ ret' = Result(Zero, FALSE, Nil, OrderedMapLen(World))

CallOldest ==
    /\ Becomes(World)
    /\ ref' = ref
    /\ call' = Called("Oldest", Nil, Zero, Nil)
    /\ ret' = Result(Zero, FALSE, Oldest(World), 0)

CallNewest ==
    /\ Becomes(World)
    /\ ref' = ref
    /\ call' = Called("Newest", Nil, Zero, Nil)
    /\ ret' = Result(Zero, FALSE, Newest(World), 0)

CallNext(p) ==
    /\ Becomes(World)
    /\ ref' = ref
    /\ call' = Called("Next", Nil, Zero, p)
    /\ ret' = Result(Zero, FALSE, PairNext(World, p), 0)

CallPrev(p) ==
    /\ Becomes(World)
    /\ ref' = ref
    /\ call' = Called("Prev", Nil, Zero, p)
    /\ ret' = Result(Zero, FALSE, PairPrev(World, p), 0)

\* Any call of the API, in any order.
Next ==
    \/ \E key \in Keys, value \in Values : CallSet(key, value) /\ UNCHANGED <<deleted, held>>
    \/ \E key \in Keys : CallDelete(key) /\ UNCHANGED <<deleted, held>>
    \/ \E key \in Keys : CallGet(key) /\ UNCHANGED <<deleted, held>>
    \/ \E key \in Keys : CallGetPair(key) /\ UNCHANGED <<deleted, held>>
    \/ CallLen /\ UNCHANGED <<deleted, held>>
    \/ CallOldest /\ UNCHANGED <<deleted, held>>
    \/ CallNewest /\ UNCHANGED <<deleted, held>>
    \/ \E p \in Handles(World) : CallNext(p) /\ UNCHANGED <<deleted, held>>
    \/ \E p \in Handles(World) : CallPrev(p) /\ UNCHANGED <<deleted, held>>

Spec == Init /\ [][Next]_vars

\* Set and Delete calls in any order, remembering a Delete that removed a
\* key for the length of the call that follows it.
Remember ==
    deleted' = IF call.op = "Delete" /\ ret.present
               THEN [key |-> call.key, keys |-> ForwardKeys(pre)]
               ELSE NoDelete

NextTwoCalls ==
    \/ \E key \in Keys, value \in Values :
          CallSet(key, value) /\ Remember /\ UNCHANGED held
    \/ \E key \in Keys : CallDelete(key) /\ Remember /\ UNCHANGED held

SpecTwoCalls == Init /\ [][NextTwoCalls]_vars

\* ---------------------------------------------------------------- handles
\* A caller that keeps one of the pairs the map has returned:
\* `h := om.GetPair(k)`, `h = h.Next()`, with Set and Delete calls in
\* between. The last call is recorded as in the other specifications, but
\* for the map as it was before the call (pre); a pair that a call returns
\* is recorded in held.

\* The caller stores the pair p a call returned.
Hold(p) ==
    held' = IF p = Nil THEN NoHandle
            ELSE [pair |-> p, key |-> heap[p].Key, deleted |-> FALSE, value |-> Zero]

\* Delete(key) removes the key the caller holds a pair of: from now on the
\* pair is that of a deleted key, and the value it read then is noted.
Lose(key) ==
    held' = IF held.pair # Nil /\ ~held.deleted /\ held.key = key
               /\ key \in DOMAIN pairs
            THEN [held EXCEPT !.deleted = TRUE, !.value = heap[held.pair].Value]
            ELSE held

\* The caller may call Next and Prev on the pair it holds as long as the
\* pair's key has not been deleted (the API's contract).
Usable == held.pair # Nil /\ ~held.deleted

Step(w) ==
    /\ pairs' = w.pairs
    /\ list' = w.list
    /\ heap' = Collect(w).heap
    /\ allocs' = w.allocs
    /\ UNCHANGED <<pre, deleted>>

HandleSet(key, value) ==
    /\ key \in DOMAIN pairs \/ allocs < MaxHandleAlloc
    /\ LET r == Set(World, key, value)
       IN /\ Step(r.w)
          /\ ref' = RefSet(ref, key, value)
          /\ call' = Called("Set", key, value, Nil)
          /\ ret' = Result(r.value, r.present, Nil, 0)
          /\ UNCHANGED held

HandleDelete(key) ==
    LET r == Delete(World, key)
    IN /\ Step(r.w)
       /\ ref' = RefDelete(ref, key)
       /\ call' = Called("Delete", key, Zero, Nil)
       /\ ret' = Result(r.value, r.present, Nil, 0)
       /\ Lose(key)

\* A call that returns a pair, which the caller stores in place of the one
\* it held; the pair it held before is the collector's if nothing else
\* refers to it.
Take(op, key, p) ==
    /\ Hold(p)
    /\ heap' = Retain(World, p).heap
    /\ call' = Called(op, key, Zero, Nil)
    /\ ret' = NoResult
    /\ UNCHANGED <<pairs, list, allocs, pre, ref, deleted>>

HandleGetPair(key) == Take("GetPair", key, GetPair(World, key))

HandleOldest == Take("Oldest", Nil, Oldest(World))

HandleNewest == Take("Newest", Nil, Newest(World))

HandleNext == Usable /\ Take("Next", Nil, PairNext(World, held.pair))

HandlePrev == Usable /\ Take("Prev", Nil, PairPrev(World, held.pair))

NextHandles ==
    \/ \E key \in Keys, value \in Values : HandleSet(key, value)
    \/ \E key \in Keys : HandleDelete(key)
    \/ \E key \in Keys : HandleGetPair(key)
    \/ HandleOldest
    \/ HandleNewest
    \/ HandleNext
    \/ HandlePrev

SpecHandles == Init /\ [][NextHandles]_vars

\* ================================================================== claims
Reverse(s) == [i \in 1..Len(s) |-> s[Len(s) + 1 - i]]

\* s without its i-th element
Without(s, i) == [j \in 1..(Len(s) - 1) |-> IF j < i THEN s[j] ELSE s[j + 1]]

\* the position of x in s, 0 when x is not in s
IndexOf(s, x) ==
    IF \E i \in 1..Len(s) : s[i] = x
    THEN CHOOSE i \in 1..Len(s) : s[i] = x
    ELSE 0

\* C1: after any sequence of Set and Delete calls on a new map, the forward
\* traversal Oldest(), Next(), ... lists exactly the pairs of the reference
\* model, in its order (insertion order of the keys still present); Oldest()
\* is the reference's first key and Newest() its last one.
C1_TraversalIsInsertionOrder ==
    /\ ForwardItems(World) = ref
    /\ (Oldest(World) = Nil) <=> (ref = <<>>)
    /\ (Newest(World) = Nil) <=> (ref = <<>>)
    /\ ref # <<>> =>
          /\ heap[Oldest(World)].Key = ref[1][1]
          /\ heap[Newest(World)].Key = ref[Len(ref)][1]

\* C1's case: three keys present after a delete and a re-insertion, in an
\* order that is not the order of the keys themselves.
C1_Witness ==
    /\ call.op = "Set"
    /\ Len(ref) = 3
    /\ allocs > 3
    /\ ref[3][1] < ref[1][1]

\* The last call was a Set of a key that was present.
Updated == call.op = "Set" /\ Get(pre, call.key).present

\* C2: Set(k, v) with k present leaves the traversal's sequence of keys (in
\* both directions) and Len() as they were; k's value becomes v and no
\* other key's value changes.
C2_UpdateKeepsOrder ==
    Updated =>
        /\ ForwardKeys(World) = ForwardKeys(pre)
        /\ BackwardKeys(World) = BackwardKeys(pre)
        /\ OrderedMapLen(World) = OrderedMapLen(pre)
        /\ Get(World, call.key) = [value |-> call.value, present |-> TRUE]
        /\ \A k \in Keys \ {call.key} : Get(World, k) = Get(pre, k)
        /\ \A i \in 1..Len(ForwardItems(pre)) :
              ForwardItems(World)[i] =
                  IF ForwardItems(pre)[i][1] = call.key
                  THEN <<call.key, call.value>>
                  ELSE ForwardItems(pre)[i]

\* C2's case: an update that changes the value of a key that is not the
\* newest of three.
C2_Witness ==
    /\ Updated
    /\ OrderedMapLen(pre) = 3
    /\ Get(pre, call.key).value # call.value
    /\ heap[Newest(World)].Key # call.key

\* The last two calls were Delete(K), of a key K that was present, and then
\* Set(K, v).
Reinserted ==
    /\ call.op = "Set"
    /\ deleted.key = call.key

\* What C3 says of every key but the position of K: K is the newest, the
\* other keys follow each other as before the Delete, Set returned (zero,
\* false).
ReinsertedAtTail ==
    LET before == deleted.keys
        after == ForwardKeys(World)
    IN /\ after = Without(before, IndexOf(before, call.key)) \o <<call.key>>
       /\ heap[Newest(World)].Key = call.key
       /\ Get(World, call.key) = [value |-> call.value, present |-> TRUE]
       /\ ret = Result(Zero, FALSE, Nil, 0)

\* C3 as the specification states it: Delete(K) followed by Set(K, v) places
\* K at the newest position, and that position is distinct from K's original
\* one.
C3_ReinsertMovesKey ==
    Reinserted =>
        /\ ReinsertedAtTail
        /\ IndexOf(ForwardKeys(World), call.key)
              # IndexOf(deleted.keys, call.key)

\* C3 as amended: Delete(K) followed by Set(K, v) places K at the newest
\* position, all other keys keep their relative order and Set returns (zero,
\* false); K's position is distinct from its original one exactly when K was
\* not already the newest key.
C3_ReinsertMovesKeyToTail ==
    Reinserted =>
        /\ ReinsertedAtTail
        /\ (IndexOf(ForwardKeys(World), call.key)
               # IndexOf(deleted.keys, call.key))
           <=> (deleted.keys[Len(deleted.keys)] # call.key)

\* C3's case: the oldest of three keys is deleted and set again.
C3_Witness ==
    /\ Reinserted
    /\ Len(deleted.keys) = 3
    /\ deleted.keys[1] = call.key

\* The key held by node e of the list: e.Value.Key.
NodeKey(w, e) == w.heap[w.list.nodes[e].Value].Key

\* how many times x occurs in s
Count(s, x) == Cardinality({i \in 1..Len(s) : s[i] = x})

\* C4: the keys of the index are exactly the keys held by the nodes of the
\* linked sequence, each key is held by exactly one node, and that node is
\* the one the key's index entry points to.
C4_IndexAndSequenceAgree ==
    LET nodes == SequenceNodes(World)
        keys == [i \in 1..Len(nodes) |-> NodeKey(World, nodes[i])]
    IN /\ {keys[i] : i \in 1..Len(keys)} = DOMAIN pairs
       /\ \A k \in DOMAIN pairs : Count(keys, k) = 1
       /\ \A k \in DOMAIN pairs :
             /\ heap[pairs[k]].Key = k
             /\ Count(nodes, heap[pairs[k]].element) = 1
             /\ list.nodes[heap[pairs[k]].element].Value = pairs[k]

\* C4's case: two keys are left after inserts, a re-insertion and a delete.
C4_Witness ==
    /\ call.op = "Delete"
    /\ ret.present
    /\ Cardinality(DOMAIN pairs) = 2
    /\ allocs > 3

\* C5: Len() is the number of keys present (the length of the reference),
\* the size of the index and the length of the linked sequence; a Set of an
\* absent key raises it by 1, a Delete of a present key lowers it by 1, any
\* other call leaves it as it was, and a call of Len() returns it.
C5_LenCountsKeys ==
    /\ OrderedMapLen(World) = Len(ref)
    /\ OrderedMapLen(World) = Cardinality({ref[i][1] : i \in 1..Len(ref)})
    /\ OrderedMapLen(World) = Cardinality(DOMAIN pairs)
    /\ OrderedMapLen(World) = ListLen(list)
    /\ OrderedMapLen(World) = OrderedMapLen(pre) +
          (IF call.op = "Set" /\ ~Get(pre, call.key).present THEN 1
           ELSE IF call.op = "Delete" /\ Get(pre, call.key).present THEN -1
           ELSE 0)
    /\ call.op = "Len" => ret.n = Len(ref)

\* C5's case: Len() is called on a map of two keys, after a delete.
C5_Witness ==
    /\ call.op = "Len"
    /\ ret.n = 2
    /\ allocs > 2

\* C6: the loop from Oldest() by Next() ends by itself after exactly Len()
\* pairs, each key present visited once, and so does the loop from Newest()
\* by Prev(); Next() of the newest pair and Prev() of the oldest are nil.
C6_TraversalTerminates ==
    LET n == OrderedMapLen(World)
        f == KeysOf(World, Forward(World, Oldest(World), n + 1))
        b == KeysOf(World, Backward(World, Newest(World), n + 1))
    IN /\ Len(f) = n
       /\ Len(b) = n
       /\ \A k \in DOMAIN pairs : Count(f, k) = 1 /\ Count(b, k) = 1
       /\ n > 0 => /\ PairNext(World, Newest(World)) = Nil
                   /\ PairPrev(World, Oldest(World)) = Nil
       /\ call.op = "Next" /\ call.pair = Newest(pre) => ret.pair = Nil
       /\ call.op = "Prev" /\ call.pair = Oldest(pre) => ret.pair = Nil

\* C6's case: Next() is called on the newest of three pairs.
C6_Witness ==
    /\ call.op = "Next"
    /\ call.pair = Newest(World)
    /\ ret.pair = Nil
    /\ OrderedMapLen(World) = 3
    /\ allocs > 3

\* C7: the pairs from Oldest() by Next() are the reverse of the pairs from
\* Newest() by Prev(); p.Next() = q non-nil implies q.Prev() = p, and
\* p.Prev() = q non-nil implies q.Next() = p.
C7_ForwardIsReverseOfBackward ==
    /\ ForwardItems(World) = Reverse(BackwardItems(World))
    /\ \A p \in Handles(World) :
          /\ PairNext(World, p) # Nil => PairPrev(World, PairNext(World, p)) = p
          /\ PairPrev(World, p) # Nil => PairNext(World, PairPrev(World, p)) = p

\* C7's case: Prev() steps back from a pair of a map of three keys with
\* different values.
C7_Witness ==
    /\ call.op = "Prev"
    /\ ret.pair # Nil
    /\ Len(ref) = 3
    /\ ref[1][2] # ref[3][2]

\* The last call was a Set of a key that was absent.
Inserted == call.op = "Set" /\ ~Get(pre, call.key).present

\* C8: Set(k, v) with k absent makes k the newest pair with value v, makes
\* Get(k) = (v, true), leaves the pairs present before as they were, ahead
\* of it, and returns (zero, false).
C8_InsertAppends ==
    Inserted =>
        /\ Newest(World) # Nil
        /\ heap[Newest(World)].Key = call.key
        /\ heap[Newest(World)].Value = call.value
        /\ Get(World, call.key) = [value |-> call.value, present |-> TRUE]
        /\ ForwardItems(World)
              = Append(ForwardItems(pre), <<call.key, call.value>>)
        /\ \A k \in Keys \ {call.key} : Get(World, k) = Get(pre, k)
        /\ ret = Result(Zero, FALSE, Nil, 0)

\* C8's case: a third key is inserted with a value that is not the zero
\* value.
C8_Witness ==
    /\ Inserted
    /\ OrderedMapLen(pre) = 2
    /\ call.value # Zero

\* The last call was a Delete of a key that was present.
Removed == call.op = "Delete" /\ Get(pre, call.key).present

\* C9: Delete(k) with k present returns (k's value, true); afterwards k is
\* in neither the index nor a node of the list, Get(k) = (zero, false),
\* GetPair(k) = nil, no traversal reaches k, and the other pairs keep their
\* order and values.
C9_DeleteRemoves ==
    Removed =>
        LET at == IndexOf(ForwardKeys(pre), call.key)
            nodes == SequenceNodes(World)
        IN /\ ret = Result(Get(pre, call.key).value, TRUE, Nil, 0)
           /\ call.key \notin DOMAIN pairs
           /\ \A i \in 1..Len(nodes) : NodeKey(World, nodes[i]) # call.key
           /\ Get(World, call.key) = [value |-> Zero, present |-> FALSE]
           /\ GetPair(World, call.key) = Nil
           /\ Count(ForwardKeys(World), call.key) = 0
           /\ Count(BackwardKeys(World), call.key) = 0
           /\ ForwardItems(World) = Without(ForwardItems(pre), at)
           /\ BackwardItems(World) = Reverse(Without(ForwardItems(pre), at))
           /\ \A k \in Keys \ {call.key} : Get(World, k) = Get(pre, k)

\* C9's case: the middle one of three keys is deleted, and its value was not
\* the zero value.
C9_Witness ==
    /\ Removed
    /\ OrderedMapLen(pre) = 3
    /\ ForwardKeys(pre)[2] = call.key
    /\ ret.value # Zero

\* C10: Delete(k) with k absent changes nothing, neither the index, the list
\* nor a pair, and returns (zero, false): Len(), the traversal in both
\* directions and every key's value are as before the call.
C10_DeleteAbsentIsNoOp ==
    (call.op = "Delete" /\ ~Get(pre, call.key).present) =>
        /\ World = pre
        /\ ret = Result(Zero, FALSE, Nil, 0)
        /\ OrderedMapLen(World) = OrderedMapLen(pre)
        /\ ForwardItems(World) = ForwardItems(pre)
        /\ BackwardItems(World) = BackwardItems(pre)
        /\ \A k \in Keys : Get(World, k) = Get(pre, k)

\* C10's case: a key is deleted twice in a row, the map holding another key.
C10_Witness ==
    /\ call.op = "Delete"
    /\ ~ret.present
    /\ deleted.key = call.key
    /\ OrderedMapLen(World) > 0

\* C11: Set(k, v) and Delete(k) return the pair (value, present) that Get(k)
\* would have returned just before the call; when the stored value is the
\* zero value that is (zero, true), not (zero, false).
C11_ReturnsWhatGetWouldHave ==
    call.op \in {"Set", "Delete"} =>
        /\ [value |-> ret.value, present |-> ret.present] = Get(pre, call.key)
        /\ ret.present <=> call.key \in DOMAIN pre.pairs
        /\ ret.present => ret.value = pre.heap[pre.pairs[call.key]].Value

\* C11's case: a Delete of a key whose stored value is the zero value, so
\* that only the flag tells it from a missing key.
C11_Witness ==
    /\ call.op = "Delete"
    /\ ret.present
    /\ ret.value = Zero
    /\ OrderedMapLen(pre) = 2

\* what the reference model holds for a key, as Get reports it
RefGet(r, key) ==
    IF RefIndex(r, key) = 0 THEN [value |-> Zero, present |-> FALSE]
    ELSE [value |-> r[RefIndex(r, key)][2], present |-> TRUE]

\* The calls that only read the map.
Reads == {"Get", "GetPair", "Len", "Oldest", "Newest", "Next", "Prev"}

\* C12: Get, GetPair, Len, Oldest, Newest, Next and Prev leave the index,
\* the list and every pair as they were; Get(k) returns (v, true) with v the
\* value of the latest Set(k, v) since k was last absent, and (zero, false)
\* when k is absent.
C12_ReadsDoNotMutate ==
    /\ call.op \in Reads =>
          /\ World = pre
          /\ ForwardItems(World) = ForwardItems(pre)
          /\ BackwardItems(World) = BackwardItems(pre)
    /\ call.op = "Get" =>
          [value |-> ret.value, present |-> ret.present] = RefGet(ref, call.key)
    /\ \A k \in Keys : Get(World, k) = RefGet(ref, k)

\* C12's case: Get of a key whose value is the zero value, the key being
\* the oldest of three after an update.
C12_Witness ==
    /\ call.op = "Get"
    /\ ret.present
    /\ ret.value = Zero
    /\ Len(ref) = 3
    /\ ref[1][1] = call.key

\* the part of s from its first x on, empty when x is not in s
From(s, x) == IF IndexOf(s, x) = 0 THEN <<>> ELSE SubSeq(s, IndexOf(s, x), Len(s))

\* C13: for a present key K the pairs from GetPair(K) by Next() are the part
\* of the traversal from Oldest() that starts at K, and the pairs from
\* GetPair(K) by Prev() are the part of the traversal from Newest() that
\* starts at K; for an absent key GetPair returns nil.
C13_TraversalResumesAtKey ==
    /\ \A k \in Keys :
          LET p == GetPair(World, k)
          IN IF RefIndex(ref, k) = 0 THEN p = Nil
             ELSE /\ p # Nil
                  /\ heap[p].Key = k
                  /\ Forward(World, p, Fuel(World))
                        = From(Forward(World, Oldest(World), Fuel(World)), p)
                  /\ Backward(World, p, Fuel(World))
                        = From(Backward(World, Newest(World), Fuel(World)), p)
    /\ call.op = "GetPair" =>
          /\ ret.pair = GetPair(World, call.key)
          /\ (ret.pair = Nil) <=> (RefIndex(ref, call.key) = 0)

\* C13's case: GetPair of the middle one of three keys, after a
\* re-insertion.
C13_Witness ==
    /\ call.op = "GetPair"
    /\ ret.pair # Nil
    /\ Len(ref) = 3
    /\ ref[2][1] = call.key
    /\ allocs > 3

\* C14: a new map is empty: Len() = 0, Get and Delete of any key return
\* (zero, false).  In every state Oldest() is nil exactly when Len() = 0,
\* and so is Newest(); when Len() = 1 they are the same pair.
C14_EmptyMapAndEnds ==
    /\ call.op = "New" =>
          /\ OrderedMapLen(World) = 0
          /\ \A k \in Keys :
                /\ Get(World, k) = [value |-> Zero, present |-> FALSE]
                /\ Delete(World, k) = [w |-> World, value |-> Zero, present |-> FALSE]
    /\ (pre = New /\ call.op \in {"Get", "Delete"}) =>
          ret = Result(Zero, FALSE, Nil, 0)
    /\ (Oldest(World) = Nil) <=> (OrderedMapLen(World) = 0)
    /\ (Newest(World) = Nil) <=> (OrderedMapLen(World) = 0)
    /\ OrderedMapLen(World) = 1 => Oldest(World) = Newest(World)

\* C14's case: one key is left, the others having been deleted.
C14_Witness ==
    /\ call.op = "Delete"
    /\ ret.present
    /\ OrderedMapLen(World) = 1
    /\ allocs >= 3

\* Address a is nil or the address of a Pair in memory.
PairOrNil(w, a) == a = Nil \/ a \in DOMAIN w.heap

\* Handle e is nil or the handle of a node of the list.
NodeOrNil(w, e) == e = Nil \/ e \in DOMAIN w.list.nodes

\* C16: no operation fails.  Every pointer a call follows is good: an index
\* entry is a Pair in memory whose element is a node of the list (not nil),
\* a node's payload is a Pair in memory, its links and the list's ends are
\* nodes or nil; so Next and Prev never dereference nil.  A missing key is
\* answered by (zero, false) or nil, and a returned pair is nil or the pair
\* of a key present.
C16_NoOperationFails ==
    /\ \A k \in DOMAIN pairs :
          /\ pairs[k] # Nil
          /\ pairs[k] \in DOMAIN heap
          /\ heap[pairs[k]].element # Nil
          /\ heap[pairs[k]].element \in DOMAIN list.nodes
    /\ \A e \in DOMAIN list.nodes :
          /\ list.nodes[e].Value \in DOMAIN heap
          /\ NodeOrNil(World, list.nodes[e].next)
          /\ NodeOrNil(World, list.nodes[e].prev)
    /\ NodeOrNil(World, ListFront(list))
    /\ NodeOrNil(World, ListBack(list))
    /\ \A p \in Handles(World) :
          /\ PairOrNil(World, PairNext(World, p))
          /\ PairOrNil(World, PairPrev(World, p))
    /\ \A k \in Keys \ DOMAIN pairs :
          /\ Get(World, k) = [value |-> Zero, present |-> FALSE]
          /\ GetPair(World, k) = Nil
          /\ Delete(World, k) = [w |-> World, value |-> Zero, present |-> FALSE]
    /\ call.op \in {"GetPair", "Oldest", "Newest", "Next", "Prev"} =>
          ret.pair \in Handles(World) \cup {Nil}

\* C16's case: Prev() is called on the oldest of three pairs and answers
\* nil.
C16_Witness ==
    /\ call.op = "Prev"
    /\ call.pair = Oldest(World)
    /\ ret.pair = Nil
    /\ OrderedMapLen(World) = 3
    /\ allocs > 3

\* The key read through pair p, nil for the nil pair.
KeyOrNil(w, p) == IF p = Nil THEN Nil ELSE w.heap[p].Key

\* The i-th key of a sequence of keys, nil outside of it.
KeyAt(keys, i) == IF i \in 1..Len(keys) THEN keys[i] ELSE Nil

\* The keys of the reference model, in its order.
RefKeys(r) == [i \in 1..Len(r) |-> r[i][1]]

\* C15: a pair the caller obtained for key K (from GetPair, Oldest, Newest,
\* Next or Prev) stays valid through any later Set calls and Delete calls
\* of other keys: it is still the pair of K in the index, and its Next()
\* and Prev() are the pairs of the keys now after and before K in the
\* traversal from Oldest() (and in the reference order), nil at the ends,
\* and never the pair of a deleted key.
C15_HandleStaysValid ==
    Usable =>
        LET keys == ForwardKeys(World)
            i == IndexOf(keys, held.key)
            j == RefIndex(ref, held.key)
            n == PairNext(World, held.pair)
            p == PairPrev(World, held.pair)
        IN /\ GetPair(World, held.key) = held.pair
           /\ heap[held.pair].Key = held.key
           /\ n \in Handles(World) \cup {Nil}
           /\ p \in Handles(World) \cup {Nil}
           /\ i > 0 /\ j > 0
           /\ KeyOrNil(World, n) = KeyAt(keys, i + 1)
           /\ KeyOrNil(World, p) = KeyAt(keys, i - 1)
           /\ KeyOrNil(World, n) = KeyAt(RefKeys(ref), j + 1)
           /\ KeyOrNil(World, p) = KeyAt(RefKeys(ref), j - 1)

\* The caller holds the pair of K; a pair allocated after K's is gone
\* (deleted), and the last call inserted a key, whose pair is now what
\* Next() returns on the pair held since before that call.
C15_Witness ==
    /\ Usable
    /\ call.op = "Set" /\ ~ret.present
    /\ PairNext(World, held.pair) = GetPair(World, call.key)
    /\ held.pair + 1 < GetPair(World, call.key)

\* Pair p is the entry the index has for its key, and Get on that key
\* answers with the value read through p.
SharedEntry(w, p) ==
    /\ GetPair(w, w.heap[p].Key) = p
    /\ Get(w, w.heap[p].Key) = [value |-> w.heap[p].Value, present |-> TRUE]

\* C18: the index and the list share one entry per key.  Every pair p that
\* a traversal (from Oldest() by Next(), from Newest() by Prev()) reaches
\* is GetPair(p.Key) itself, and Get(p.Key) = (p.Value, true); so a pair
\* of present key K that the caller held before a Set(K, v) reads
\* Value = v after it and is still GetPair(K).
C18_OneEntryPerKey ==
    LET fwd == Forward(World, Oldest(World), Fuel(World))
        bwd == Backward(World, Newest(World), Fuel(World))
    IN /\ \A i \in 1..Len(fwd) : SharedEntry(World, fwd[i])
       /\ \A i \in 1..Len(bwd) : SharedEntry(World, bwd[i])
       /\ Len(fwd) = Len(ref)
       /\ \A i \in 1..Len(fwd) :
             Get(World, ref[i][1]) = [value |-> heap[fwd[i]].Value, present |-> TRUE]
       /\ (Usable /\ call.op = "Set" /\ call.key = held.key) =>
             /\ ret.present
             /\ heap[held.pair].Value = call.value
             /\ GetPair(World, held.key) = held.pair

\* The caller holds the pair of K, one of several keys; the last call was
\* a Set(K, v) that changed K's value, and the pair reads v.
C18_Witness ==
    /\ Usable
    /\ call.op = "Set" /\ call.key = held.key
    /\ ret.present /\ ret.value # call.value
    /\ heap[held.pair].Value = call.value
    /\ OrderedMapLen(World) > 1

\* C19: re-inserting a deleted key creates a fresh entry.  Once the key K of
\* the pair h the caller holds has been deleted, h still reads K and the
\* value it had at the Delete, whatever Set calls follow; h is not in the
\* index (GetPair(K) is nil or another pair), no traversal from Oldest() or
\* Newest() reaches h, and a later Set(K, w) writes w into the entry the
\* index has for K.
C19_ReinsertIsFreshEntry ==
    held.deleted =>
        /\ held.pair \in DOMAIN heap
        /\ heap[held.pair].Key = held.key
        /\ heap[held.pair].Value = held.value
        /\ GetPair(World, held.key) # held.pair
        /\ held.pair \notin Handles(World)
        /\ IndexOf(Forward(World, Oldest(World), Fuel(World)), held.pair) = 0
        /\ IndexOf(Backward(World, Newest(World), Fuel(World)), held.pair) = 0
        /\ (call.op = "Set" /\ call.key = held.key) =>
              /\ GetPair(World, held.key) # Nil
              /\ heap[GetPair(World, held.key)].Value = call.value
              /\ Get(World, held.key) = [value |-> call.value, present |-> TRUE]

\* The caller's pair h was that of K; K was deleted and inserted again, and
\* the last call, Set(K, w), updated the new entry to a value that is not
\* the one h reads.
C19_Witness ==
    /\ held.deleted
    /\ call.op = "Set" /\ call.key = held.key
    /\ ret.present
    /\ call.value # held.value
    /\ heap[held.pair].Value = held.value
    /\ OrderedMapLen(World) > 1

=============================================================================
